---- MODULE Spec2Model ----
(***************************************************************************)
(* Phase-1 TaskManager (src/Phase-1/src/services/task_manager.py): the     *)
(* in-memory task store, its validation rules, the completion/recurrence   *)
(* step and the recurrence date arithmetic.                                *)
(*                                                                         *)
(* Encoding of Python values:                                              *)
(*   str                a sequence of one-character strings                *)
(*   Optional[X]        None is << >>, a value v is << v >>                *)
(*   datetime           << year, month, day, hour >>                       *)
(*   priority / rule    a TLA+ string (compared by membership only)        *)
(***************************************************************************)
EXTENDS Integers, Sequences, FiniteSets, TLC

VARIABLES
    tasks,      \* TaskManager.tasks: id -> Task
    next_id,    \* TaskManager.next_id
    now,        \* the system clock, read by datetime.now()
    last,       \* the latest call and the exception it raised
    assigned,   \* history: the ids given to created tasks, in order
    held,       \* the caller's reference to a Task object (its id), 0 for none
    listed      \* the list object the caller got from get_all_tasks: Task references

vars == <<tasks, next_id, now, last, assigned, held, listed>>

----------------------------------------------------------------------------
(* Optional values *)

None == << >>

Some(v) == << v >>

Val(o) == o[1]

----------------------------------------------------------------------------
(* Program constants *)

MAX_TITLE_LENGTH == 200

MAX_DESCRIPTION_LENGTH == 1000

INITIAL_TASK_ID == 1

VALID_PRIORITIES == {"low", "medium", "high"}

MAX_CATEGORY_LENGTH == 50

DEFAULT_CATEGORY == <<"G", "e", "n", "e", "r", "a", "l">>

VALID_RECURRENCE_RULES == {"daily", "weekly", "monthly"}

----------------------------------------------------------------------------
(* Strings *)

Whitespace == {" ", "\t", "\n"}

RECURSIVE lstrip(_)
lstrip(s) == IF s # << >> /\ Head(s) \in Whitespace THEN lstrip(Tail(s)) ELSE s

RECURSIVE rstrip(_)
rstrip(s) ==
    IF s # << >> /\ s[Len(s)] \in Whitespace
    THEN rstrip(SubSeq(s, 1, Len(s) - 1))
    ELSE s

\* str.strip(): surrounding whitespace removed
strip(s) == rstrip(lstrip(s))

\* a string of n copies of the character c
Rep(c, n) == [i \in 1..n |-> c]

----------------------------------------------------------------------------
(* Calendar: the proleptic Gregorian calendar of Python's datetime *)

IsLeap(y) == (y % 4 = 0) /\ ((y % 100 # 0) \/ (y % 400 = 0))

\* calendar.monthrange(year, month)[1]
monthrange_last(y, m) ==
    IF m = 2 THEN (IF IsLeap(y) THEN 29 ELSE 28)
    ELSE IF m \in {4, 6, 9, 11} THEN 30 ELSE 31

\* days in the years before year y
DaysBeforeYear(y) ==
    LET p == y - 1 IN p * 365 + (p \div 4) - (p \div 100) + (p \div 400)

RECURSIVE DaysBeforeMonth(_, _)
DaysBeforeMonth(y, m) ==
    IF m = 1 THEN 0 ELSE DaysBeforeMonth(y, m - 1) + monthrange_last(y, m - 1)

\* date.toordinal(): 0001-01-01 is day 1
toordinal(dt) == DaysBeforeYear(dt[1]) + DaysBeforeMonth(dt[1], dt[2]) + dt[3]

RECURSIVE YearOfOrdinal(_, _)
YearOfOrdinal(n, y) ==
    IF DaysBeforeYear(y + 1) >= n THEN y ELSE YearOfOrdinal(n, y + 1)

RECURSIVE MonthOfOrdinal(_, _, _)
MonthOfOrdinal(n, y, m) ==
    IF DaysBeforeYear(y) + DaysBeforeMonth(y, m) + monthrange_last(y, m) >= n
    THEN m
    ELSE MonthOfOrdinal(n, y, m + 1)

\* date.fromordinal(n), as << year, month, day >>
fromordinal(n) ==
    LET y == YearOfOrdinal(n, ((n - 1) \div 366) + 1)
        m == MonthOfOrdinal(n, y, 1)
    IN  <<y, m, n - DaysBeforeYear(y) - DaysBeforeMonth(y, m)>>

\* datetime + timedelta(days=k): the time of day is kept
plus_days(dt, k) ==
    LET d == fromordinal(toordinal(dt) + k) IN <<d[1], d[2], d[3], dt[4]>>

\* datetime.date()
date(dt) == <<dt[1], dt[2], dt[3]>>

\* a < b on dates (Python compares year, month, day in this order)
date_lt(a, b) ==
    \/ a[1] < b[1]
    \/ a[1] = b[1] /\ a[2] < b[2]
    \/ a[1] = b[1] /\ a[2] = b[2] /\ a[3] < b[3]

Min(a, b) == IF a < b THEN a ELSE b

----------------------------------------------------------------------------
(* Validation: each returns the error it raises, NoError when it returns *)

NoError == "None"

validate_priority(priority) ==
    IF priority # None /\ Val(priority) \notin VALID_PRIORITIES
    THEN "Priority must be one of"
    ELSE NoError

validate_category(category) ==
    IF category = None THEN NoError
    ELSE IF strip(Val(category)) = << >> THEN "Category cannot be empty or whitespace"
    ELSE IF Len(Val(category)) > MAX_CATEGORY_LENGTH
         THEN "Category exceeds maximum length"
    ELSE NoError

\* a < b on datetimes: the date first, then the time of day
datetime_lt(a, b) ==
    date_lt(date(a), date(b)) \/ (date(a) = date(b) /\ a[4] < b[4])

\* a slip: the due date compared with the clock to the hour
validate_due_date_to_the_hour(due_date, clock) ==
    IF due_date # None /\ datetime_lt(Val(due_date), clock)
    THEN "Due date must be in the future"
    ELSE NoError

validate_due_date(due_date, clock) ==
    IF due_date # None /\ date_lt(date(Val(due_date)), date(clock))
    THEN "Due date must be in the future"
    ELSE NoError

validate_recurrence_rule(recurrence_rule) ==
    IF recurrence_rule # None /\ Val(recurrence_rule) \notin VALID_RECURRENCE_RULES
    THEN "Recurrence rule must be one of"
    ELSE NoError

\* the title checks shared by add_task and update_task, on the stripped title
validate_title(stripped) ==
    IF stripped = << >> THEN "Title cannot be empty"
    ELSE IF Len(stripped) > MAX_TITLE_LENGTH THEN "Title exceeds maximum length"
    ELSE NoError

validate_description(description) ==
    IF Len(description) > MAX_DESCRIPTION_LENGTH
    THEN "Description exceeds maximum length"
    ELSE NoError

\* the first error among errs, in the order the code runs the checks
RECURSIVE FirstError(_)
FirstError(errs) ==
    IF errs = << >> THEN NoError
    ELSE IF Head(errs) # NoError THEN Head(errs)
    ELSE FirstError(Tail(errs))

----------------------------------------------------------------------------
(* Recurrence date arithmetic *)

\* a slip: the day of the month is not clamped to the next month's length
_calculate_next_due_date_unclamped(current_due_date, recurrence_rule) ==
    IF recurrence_rule = "daily" THEN plus_days(current_due_date, 1)
    ELSE IF recurrence_rule = "weekly" THEN plus_days(current_due_date, 7)
    ELSE IF recurrence_rule = "monthly" THEN
        <<IF current_due_date[2] = 12 THEN current_due_date[1] + 1
                                      ELSE current_due_date[1],
          IF current_due_date[2] = 12 THEN 1 ELSE current_due_date[2] + 1,
          current_due_date[3], current_due_date[4]>>
    ELSE current_due_date

\* a slip: a due date on the last day of its month moves to the last day
\* of the next month
_calculate_next_due_date_month_end(current_due_date, recurrence_rule) ==
    IF recurrence_rule = "daily" THEN plus_days(current_due_date, 1)
    ELSE IF recurrence_rule = "weekly" THEN plus_days(current_due_date, 7)
    ELSE IF recurrence_rule = "monthly" THEN
        LET year == current_due_date[1]
            month == current_due_date[2]
            day == current_due_date[3]
            next_year == IF month = 12 THEN year + 1 ELSE year
            next_month == IF month = 12 THEN 1 ELSE month + 1
            last_day_of_next_month == monthrange_last(next_year, next_month)
            next_day == IF day = monthrange_last(year, month)
                        THEN last_day_of_next_month
                        ELSE Min(day, last_day_of_next_month)
        IN  <<next_year, next_month, next_day, current_due_date[4]>>
    ELSE current_due_date

_calculate_next_due_date(current_due_date, recurrence_rule) ==
    IF recurrence_rule = "daily" THEN plus_days(current_due_date, 1)
    ELSE IF recurrence_rule = "weekly" THEN plus_days(current_due_date, 7)
    ELSE IF recurrence_rule = "monthly" THEN
        LET year == current_due_date[1]
            month == current_due_date[2]
            day == current_due_date[3]
            next_year == IF month = 12 THEN year + 1 ELSE year
            next_month == IF month = 12 THEN 1 ELSE month + 1
            last_day_of_next_month == monthrange_last(next_year, next_month)
            next_day == Min(day, last_day_of_next_month)
        IN  <<next_year, next_month, next_day, current_due_date[4]>>
    ELSE current_due_date

\* datetime.replace(day=day): None stands for the ValueError raised when
\* the month of dt has no such day
replace_day(dt, day) ==
    IF day <= monthrange_last(dt[1], dt[2])
    THEN Some(<<dt[1], dt[2], day, dt[4]>>)
    ELSE None

\* Phase-2 backend, recurrence_service.calculate_next_due_date; recurrence
\* is the value of the Recurrence enum
calculate_next_due_date(current_due, recurrence) ==
    IF recurrence = "none" THEN current_due
    ELSE IF recurrence = "daily" THEN plus_days(current_due, 1)
    ELSE IF recurrence = "weekly" THEN plus_days(current_due, 7)
    ELSE IF recurrence = "monthly" THEN
        LET next_month == plus_days(current_due, 30)
            replaced == replace_day(next_month, current_due[3])
        IN  IF replaced = None THEN next_month ELSE Val(replaced)
    ELSE current_due

----------------------------------------------------------------------------
(* The Task dataclass and the store operations.  An operation is an        *)
(* operator from the store (T: the tasks dict, nid: next_id) and the clock *)
(* to the store it leaves behind and the error it raises.                  *)

Task(id, title, description, is_complete, priority, category, due_date, recurrence_rule) ==
    [id |-> id, title |-> title, description |-> description,
     is_complete |-> is_complete, priority |-> priority, category |-> category,
     due_date |-> due_date, recurrence_rule |-> recurrence_rule]

\* Python truthiness of an Optional[str] whose value is a TLA+ string
Truthy(o) == o # None /\ Val(o) # ""

\* what a call leaves behind: the store, the error raised (NoError when it
\* returns) and the ids of the tasks it created
Outcome(T, nid, raised, created) ==
    [tasks |-> T, next_id |-> nid, raised |-> raised, created |-> created]

\* a slip: the id taken from the number of stored tasks
NewId_from_len(T, nid) == Cardinality(DOMAIN T) + 1

\* id=self.next_id
NewId(T, nid) == nid

\* a slip: the id counter moves on before the arguments are validated
add_task_counts_first(T, nid, clock, a) ==
    LET title == strip(a.title)
        category == IF a.category = None THEN Some(DEFAULT_CATEGORY) ELSE a.category
        err == FirstError(<<validate_title(title),
                            validate_description(a.description),
                            validate_priority(a.priority),
                            validate_category(a.category),
                            validate_due_date(a.due_date, clock),
                            validate_recurrence_rule(a.recurrence_rule)>>)
        task == Task(nid, title, a.description, FALSE, a.priority, category,
                     a.due_date, a.recurrence_rule)
    IN  IF err # NoError THEN Outcome(T, nid + 1, err, << >>)
        ELSE Outcome([i \in DOMAIN T \cup {task.id} |->
                         IF i = task.id THEN task ELSE T[i]],
                     nid + 1, NoError, <<task.id>>)

add_task(T, nid, clock, a) ==
    LET title == strip(a.title)
        category == IF a.category = None THEN Some(DEFAULT_CATEGORY) ELSE a.category
        err == FirstError(<<validate_title(title),
                            validate_description(a.description),
                            validate_priority(a.priority),
                            validate_category(a.category),
                            validate_due_date(a.due_date, clock),
                            validate_recurrence_rule(a.recurrence_rule)>>)
        task == Task(NewId(T, nid), title, a.description, FALSE, a.priority, category,
                     a.due_date, a.recurrence_rule)
    IN  IF err # NoError THEN Outcome(T, nid, err, << >>)
        ELSE Outcome([i \in DOMAIN T \cup {task.id} |->
                         IF i = task.id THEN task ELSE T[i]],
                     nid + 1, NoError, <<task.id>>)

\* a slip: the next instance is created without the priority
spawn_args_without_priority(task) ==
    [title |-> task.title,
     description |-> task.description,
     priority |-> None,
     category |-> task.category,
     due_date |-> Some(_calculate_next_due_date(Val(task.due_date),
                                                Val(task.recurrence_rule))),
     recurrence_rule |-> task.recurrence_rule]

\* the arguments of the add_task call that creates the next instance
spawn_args(task) ==
    [title |-> task.title,
     description |-> task.description,
     priority |-> task.priority,
     category |-> task.category,
     due_date |-> Some(_calculate_next_due_date(Val(task.due_date),
                                                Val(task.recurrence_rule))),
     recurrence_rule |-> task.recurrence_rule]

\* mark_complete with the value it stores and the condition it spawns on
\* changed, for the slips below
mark_complete_with(T, nid, clock, task_id, value, spawns) ==
    IF task_id \notin DOMAIN T THEN Outcome(T, nid, "Task not found", << >>)
    ELSE
        LET T1 == [T EXCEPT ![task_id].is_complete = value]
            task == T1[task_id]
        IN  IF spawns /\ Truthy(task.recurrence_rule) /\ task.due_date # None
            THEN add_task(T1, nid, clock, spawn_args(task))
            ELSE Outcome(T1, nid, NoError, << >>)

\* a slip: a next instance only when the task was not complete before
mark_complete_on_edge(T, nid, clock, task_id, is_complete) ==
    mark_complete_with(T, nid, clock, task_id, is_complete,
                       is_complete /\ task_id \in DOMAIN T /\ ~T[task_id].is_complete)

\* a slip: the status is toggled instead of set
mark_complete_toggle(T, nid, clock, task_id, is_complete) ==
    mark_complete_with(T, nid, clock, task_id,
                       task_id \in DOMAIN T /\ ~T[task_id].is_complete, is_complete)

\* a slip: a next instance whatever the new status is
mark_complete_always_spawns(T, nid, clock, task_id, is_complete) ==
    mark_complete_with(T, nid, clock, task_id, is_complete, TRUE)

mark_complete(T, nid, clock, task_id, is_complete) ==
    IF task_id \notin DOMAIN T THEN Outcome(T, nid, "Task not found", << >>)
    ELSE
        LET T1 == [T EXCEPT ![task_id].is_complete = is_complete]
            task == T1[task_id]
        IN  IF is_complete /\ Truthy(task.recurrence_rule) /\ task.due_date # None
            THEN add_task(T1, nid, clock, spawn_args(task))
            ELSE Outcome(T1, nid, NoError, << >>)

\* update_task assigns field by field: acc is the task so far and the error
\* raised so far; a step after an error does nothing
Acc(task, raised) == [task |-> task, raised |-> raised]

\* a slip: the title is stored as it was passed
update_title_unstripped(acc, title) ==
    IF acc.raised # NoError \/ title = None THEN acc
    ELSE LET t == strip(Val(title))
             err == validate_title(t)
         IN  IF err # NoError THEN Acc(acc.task, err)
             ELSE Acc([acc.task EXCEPT !.title = Val(title)], NoError)

update_title(acc, title) ==
    IF acc.raised # NoError \/ title = None THEN acc
    ELSE LET t == strip(Val(title))
             err == validate_title(t)
         IN  IF err # NoError THEN Acc(acc.task, err)
             ELSE Acc([acc.task EXCEPT !.title = t], NoError)

update_description(acc, description) ==
    IF acc.raised # NoError \/ description = None THEN acc
    ELSE LET err == validate_description(Val(description))
         IN  IF err # NoError THEN Acc(acc.task, err)
             ELSE Acc([acc.task EXCEPT !.description = Val(description)], NoError)

update_priority(acc, priority) ==
    IF acc.raised # NoError \/ priority = None THEN acc
    ELSE LET err == validate_priority(priority)
         IN  IF err # NoError THEN Acc(acc.task, err)
             ELSE Acc([acc.task EXCEPT !.priority = priority], NoError)

\* a slip: a category that is not supplied falls back to the default
update_category_defaults(acc, category) ==
    IF acc.raised # NoError THEN acc
    ELSE IF category = None
         THEN Acc([acc.task EXCEPT !.category = Some(DEFAULT_CATEGORY)], NoError)
    ELSE LET err == validate_category(category)
         IN  IF err # NoError THEN Acc(acc.task, err)
             ELSE Acc([acc.task EXCEPT !.category = category], NoError)

update_category(acc, category) ==
    IF acc.raised # NoError \/ category = None THEN acc
    ELSE LET err == validate_category(category)
         IN  IF err # NoError THEN Acc(acc.task, err)
             ELSE Acc([acc.task EXCEPT !.category = category], NoError)

\* a slip: the stored due date is validated again when none is supplied
update_due_date_rechecks_stored(acc, due_date, clock) ==
    IF acc.raised # NoError THEN acc
    ELSE LET d == IF due_date = None THEN acc.task.due_date ELSE due_date
             err == validate_due_date(d, clock)
         IN  IF err # NoError THEN Acc(acc.task, err)
             ELSE Acc([acc.task EXCEPT !.due_date = d], NoError)

update_due_date(acc, due_date, clock) ==
    IF acc.raised # NoError \/ due_date = None THEN acc
    ELSE LET err == validate_due_date(due_date, clock)
         IN  IF err # NoError THEN Acc(acc.task, err)
             ELSE Acc([acc.task EXCEPT !.due_date = due_date], NoError)

\* a slip: the fields are looked at before the id is looked up
update_task_fields_first(T, nid, clock, task_id, p) ==
    IF /\ p.title = None /\ p.description = None /\ p.priority = None
       /\ p.category = None /\ p.due_date = None
    THEN Outcome(T, nid, "Must provide at least one field to update", << >>)
    ELSE IF task_id \notin DOMAIN T THEN Outcome(T, nid, "Task not found", << >>)
    ELSE
        LET a1 == update_title(Acc(T[task_id], NoError), p.title)
            a2 == update_description(a1, p.description)
            a3 == update_priority(a2, p.priority)
            a4 == update_category(a3, p.category)
            a5 == update_due_date(a4, p.due_date, clock)
        IN  Outcome([T EXCEPT ![task_id] = a5.task], nid, a5.raised, << >>)

update_task(T, nid, clock, task_id, p) ==
    IF task_id \notin DOMAIN T THEN Outcome(T, nid, "Task not found", << >>)
    ELSE IF /\ p.title = None /\ p.description = None /\ p.priority = None
            /\ p.category = None /\ p.due_date = None
         THEN Outcome(T, nid, "Must provide at least one field to update", << >>)
    ELSE
        LET a1 == update_title(Acc(T[task_id], NoError), p.title)
            a2 == update_description(a1, p.description)
            a3 == update_priority(a2, p.priority)
            a4 == update_category(a3, p.category)
            a5 == update_due_date(a4, p.due_date, clock)
        IN  Outcome([T EXCEPT ![task_id] = a5.task], nid, a5.raised, << >>)

\* manager.update_task(task_id, ..., recurrence_rule=...): recurrence_rule
\* is None when the keyword is not passed.  The signature has the
\* parameters title, description, priority, category and due_date, so the
\* keyword is a TypeError, raised before the body runs.
update_task_call(T, nid, clock, task_id, p, recurrence_rule) ==
    IF recurrence_rule # None THEN Outcome(T, nid, "TypeError", << >>)
    ELSE update_task(T, nid, clock, task_id, p)

\* a slip: deleting the newest task gives its id back
delete_task_rewinds(T, nid, task_id) ==
    IF task_id \notin DOMAIN T THEN Outcome(T, nid, "Task not found", << >>)
    ELSE Outcome([i \in DOMAIN T \ {task_id} |-> T[i]],
                 IF task_id = nid - 1 THEN nid - 1 ELSE nid, NoError, << >>)

\* a slip: deleting an id that is not stored is passed over in silence
delete_task_ignores_missing(T, nid, task_id) ==
    Outcome([i \in DOMAIN T \ {task_id} |-> T[i]], nid, NoError, << >>)

delete_task(T, nid, task_id) ==
    IF task_id \notin DOMAIN T THEN Outcome(T, nid, "Task not found", << >>)
    ELSE Outcome([i \in DOMAIN T \ {task_id} |-> T[i]], nid, NoError, << >>)

----------------------------------------------------------------------------
(* Reading the store.  A list of tasks is a sequence of Task records.      *)

\* sorted(items, key=...): the stable ascending sort; key[p] is the integer
\* key of items[p]
sorted(items, key) ==
    LET n == Len(items)
        rank(i) == 1 + Cardinality({j \in 1..n :
                        key[j] < key[i] \/ (key[j] = key[i] /\ j < i)})
    IN  [p \in 1..n |-> items[CHOOSE i \in 1..n : rank(i) = p]]

\* self.tasks.values(): the stored tasks in insertion order.  Keys are
\* inserted under next_id, which only grows, so insertion order is key order.
values(T) ==
    LET nth(p) == CHOOSE i \in DOMAIN T :
                      Cardinality({j \in DOMAIN T : j < i}) = p - 1
    IN  [p \in 1..Cardinality(DOMAIN T) |-> T[nth(p)]]

\* a slip: the newest task first
get_all_tasks_newest_first(T) ==
    LET v == values(T) IN sorted(v, [p \in DOMAIN v |-> 0 - v[p].id])

get_all_tasks(T) ==
    LET v == values(T) IN sorted(v, [p \in DOMAIN v |-> v[p].id])

\* a slip: tasks due today count as overdue
get_overdue_tasks_through_today(T, clock) ==
    LET overdue(task) ==
            /\ ~task.is_complete /\ task.due_date # None
            /\ ~date_lt(date(clock), date(Val(task.due_date)))
    IN  SelectSeq(get_all_tasks(T), overdue)

\* a slip: the due date compared with the clock to the hour
get_overdue_tasks_to_the_hour(T, clock) ==
    LET overdue(task) ==
            /\ ~task.is_complete /\ task.due_date # None
            /\ datetime_lt(Val(task.due_date), clock)
    IN  SelectSeq(get_all_tasks(T), overdue)

get_overdue_tasks(T, clock) ==
    LET overdue(task) ==
            /\ ~task.is_complete /\ task.due_date # None
            /\ date_lt(date(Val(task.due_date)), date(clock))
    IN  SelectSeq(get_all_tasks(T), overdue)

\* a slip: completed tasks left out
get_tasks_due_today_open_only(T, clock) ==
    LET today(task) ==
            /\ ~task.is_complete /\ task.due_date # None
            /\ date(Val(task.due_date)) = date(clock)
    IN  SelectSeq(get_all_tasks(T), today)

get_tasks_due_today(T, clock) ==
    LET today(task) ==
            /\ task.due_date # None
            /\ date(Val(task.due_date)) = date(clock)
    IN  SelectSeq(get_all_tasks(T), today)

\* a slip: the window opens today
get_upcoming_tasks_from_today(T, clock, days) ==
    LET today == date(clock)
        end_date == date(plus_days(clock, days))
        upcoming(task) ==
            /\ task.due_date # None
            /\ ~date_lt(date(Val(task.due_date)), today)
            /\ ~date_lt(end_date, date(Val(task.due_date)))
    IN  SelectSeq(get_all_tasks(T), upcoming)

get_upcoming_tasks(T, clock, days) ==
    LET today == date(clock)
        end_date == date(plus_days(clock, days))
        upcoming(task) ==
            /\ task.due_date # None
            /\ date_lt(today, date(Val(task.due_date)))
            /\ ~date_lt(end_date, date(Val(task.due_date)))
    IN  SelectSeq(get_all_tasks(T), upcoming)

\* the characters the model's strings are made of, in code point order
Chars ==
    <<"\t", " ",
      "A", "B", "C", "D", "E", "F", "G", "H", "I", "J", "K", "L", "M",
      "N", "O", "P", "Q", "R", "S", "T", "U", "V", "W", "X", "Y", "Z",
      "a", "b", "c", "d", "e", "f", "g", "h", "i", "j", "k", "l", "m",
      "n", "o", "p", "q", "r", "s", "t", "u", "v", "w", "x", "y", "z">>

\* the position of a character in code point order
ord(c) == CHOOSE n \in DOMAIN Chars : Chars[n] = c

\* str.lower()
lower(str) ==
    [p \in DOMAIN str |->
        IF ord(str[p]) \in ord("A")..ord("Z")
        THEN Chars[ord(str[p]) + (ord("a") - ord("A"))]
        ELSE str[p]]

\* a < b on str: the first differing character decides, a proper prefix
\* is smaller
str_lt(a, b) ==
    \E n \in 1..Len(b) :
        /\ \A m \in 1..(n - 1) : m <= Len(a) /\ a[m] = b[m]
        /\ n = Len(a) + 1 \/ (n <= Len(a) /\ ord(a[n]) < ord(b[n]))

\* a slip: the categories compared without regard to case
filter_tasks_any_case(T, priority, category, is_complete) ==
    LET matching(task) ==
            /\ ~(priority # None /\ task.priority # priority)
            /\ ~(category # None
                   /\ lower(Val(task.category)) # lower(Val(category)))
            /\ ~(is_complete # None /\ task.is_complete # Val(is_complete))
    IN  SelectSeq(get_all_tasks(T), matching)

\* a criterion is an Optional: None is no filter
filter_tasks(T, priority, category, is_complete) ==
    LET matching(task) ==
            /\ ~(priority # None /\ task.priority # priority)
            /\ ~(category # None /\ task.category # category)
            /\ ~(is_complete # None /\ task.is_complete # Val(is_complete))
    IN  SelectSeq(get_all_tasks(T), matching)

\* a < b on the first components of sort keys: int, str or datetime
key_lt(type, a, b) ==
    IF type = "int" THEN a < b
    ELSE IF type = "str" THEN str_lt(a, b)
    ELSE datetime_lt(a, b)

\* sorted(items, key=...) for keys (k, id): key[p] is the key of items[p],
\* type is the type of k
sorted_on(items, key, type) ==
    LET n == Len(items)
        before(j, i) ==
            \/ key_lt(type, key[j][1], key[i][1])
            \/ /\ ~key_lt(type, key[i][1], key[j][1])
               /\ key[j][2] < key[i][2] \/ (key[j][2] = key[i][2] /\ j < i)
        rank(i) == 1 + Cardinality({j \in 1..n : before(j, i)})
    IN  [p \in 1..n |-> items[CHOOSE i \in 1..n : rank(i) = p]]

\* a slip: tasks without a priority sort first
priority_order_none_first(priority) ==
    IF priority = Some("high") THEN 1
    ELSE IF priority = Some("medium") THEN 2
    ELSE IF priority = Some("low") THEN 3
    ELSE 0

\* priority_order.get(task.priority, 3)
priority_order(priority) ==
    IF priority = Some("high") THEN 0
    ELSE IF priority = Some("medium") THEN 1
    ELSE IF priority = Some("low") THEN 2
    ELSE 3

\* datetime.max, to the hour
datetime_max == <<9999, 12, 31, 23>>

sort_tasks(T, sort_by) ==
    LET tasks_ == get_all_tasks(T)
    IN  IF sort_by = "priority"
        THEN sorted_on(tasks_,
                 [p \in DOMAIN tasks_ |->
                     <<priority_order(tasks_[p].priority), tasks_[p].id>>],
                 "int")
        ELSE IF sort_by = "title"
        THEN sorted_on(tasks_,
                 [p \in DOMAIN tasks_ |->
                     <<lower(tasks_[p].title), tasks_[p].id>>],
                 "str")
        ELSE IF sort_by = "due_date"
        THEN sorted_on(tasks_,
                 [p \in DOMAIN tasks_ |->
                     <<IF tasks_[p].due_date = None THEN datetime_max
                       ELSE Val(tasks_[p].due_date), tasks_[p].id>>],
                 "datetime")
        ELSE sorted(tasks_, [p \in DOMAIN tasks_ |-> tasks_[p].id])

\* what a call that returns a list leaves: the error raised, the list
Returned(raised, list) == [raised |-> raised, list |-> list]

\* manager.sort_tasks(sort_by) or manager.sort_tasks(sort_by, reverse=...):
\* reverse is None when the keyword is not passed.  The signature is
\* sort_tasks(self, sort_by="id"), so the keyword is a TypeError.
sort_tasks_call(T, sort_by, reverse) ==
    IF reverse # None THEN Returned("TypeError", << >>)
    ELSE Returned(NoError, sort_tasks(T, sort_by))

\* the references a list of tasks holds: a Task object is known by its id
Refs(list) == [p \in DOMAIN list |-> list[p].id]

\* a variant: add_task hands out a copy, an object the store does not hold
add_task_returns_copy(r, ref) ==
    IF r.raised # NoError THEN ref ELSE 0 - r.created[1]

\* self.tasks[self.next_id] = task ... return task: the object returned is
\* the object stored; a call that raises leaves the caller's variable alone
add_task_returns(r, ref) ==
    IF r.raised # NoError THEN ref ELSE r.created[1]

\* the caller assigns a field of the Task object ref refers to; the store
\* holds that object for as long as ref is one of its keys
caller_write(T, ref, field, value) ==
    IF ref \notin DOMAIN T THEN T
    ELSE IF field = "due_date" THEN [T EXCEPT ![ref].due_date = value]
    ELSE [T EXCEPT ![ref].is_complete = value]

----------------------------------------------------------------------------
(* Bounds and inputs *)

\* at most MaxTasks ids are handed out
MaxTasks == 2

\* the clock advances at most MaxDays days past the first day
MaxDays == 2

\* the clock at the start of the run, and a due date on that day
StartClock == <<2024, 1, 30, 18>>

StartDue == <<2024, 1, 30, 12>>

\* the due date k days after the first day
Day(k) == plus_days(StartDue, k)

Str_a == <<"a">>

Str_b == <<"b">>

Str_Work == <<"W", "o", "r", "k">>

AddArgs(title, description, priority, category, due_date, recurrence_rule) ==
    [title |-> title, description |-> description, priority |-> priority,
     category |-> category, due_date |-> due_date,
     recurrence_rule |-> recurrence_rule]

\* a recurring task due on the first day, every optional field supplied
DailyArgs ==
    AddArgs(<<" ", "b", "\t">>, <<"d">>, Some("high"), Some(Str_Work),
            Some(Day(0)), Some("daily"))

\* a recurrence rule without a due date, the other fields left to their defaults
RuleOnlyArgs == AddArgs(Str_a, << >>, None, None, None, Some("weekly"))

\* a due date without a recurrence rule
DueOnlyArgs == AddArgs(Str_a, << >>, Some("low"), None, Some(Day(1)), None)

ValidAddInputs == {DailyArgs, RuleOnlyArgs, DueOnlyArgs}

InvalidAddInputs ==
    {[DailyArgs EXCEPT !.title = t] :
        t \in {<< >>, <<" ", "\t">>, Rep("x", MAX_TITLE_LENGTH + 1)}}
    \cup {[DailyArgs EXCEPT !.description = Rep("x", MAX_DESCRIPTION_LENGTH + 1)]}
    \cup {[DailyArgs EXCEPT !.priority = Some("HIGH")]}
    \cup {[DailyArgs EXCEPT !.category = Some(c)] :
            c \in {<<" ">>, Rep("x", MAX_CATEGORY_LENGTH + 1)}}
    \cup {[DailyArgs EXCEPT !.due_date = Some(Day(-1))]}
    \cup {[DailyArgs EXCEPT !.recurrence_rule = Some("yearly")]}
    \cup {[RuleOnlyArgs EXCEPT !.title = <<" ">>, !.priority = Some("urgent")]}

AddInputs == ValidAddInputs \cup InvalidAddInputs

Patch(title, description, priority, category, due_date) ==
    [title |-> title, description |-> description, priority |-> priority,
     category |-> category, due_date |-> due_date]

NoPatch == Patch(None, None, None, None, None)

UpdateInputs ==
    { NoPatch,
      [NoPatch EXCEPT !.title = Some(<<"b", " ">>)],
      [NoPatch EXCEPT !.title = Some(<<" ">>)],
      [NoPatch EXCEPT !.title = Some(Str_b),
                      !.description = Some(Rep("x", MAX_DESCRIPTION_LENGTH + 1))],
      [NoPatch EXCEPT !.priority = Some("urgent")] }

\* the ids a caller passes: assigned, deleted or not yet assigned
TaskIds == 1..MaxTasks

----------------------------------------------------------------------------
(* The state machine: one action per call of the TaskManager API, and the  *)
(* clock.  last records the latest call and the exception it raised.       *)

Raised(err) == IF err = NoError THEN NoError ELSE "ValueError"

Call(op, task_id, flag, err) ==
    [op |-> op, task_id |-> task_id, is_complete |-> flag, raised |-> Raised(err)]

Init ==
    /\ tasks = << >>
    /\ next_id = INITIAL_TASK_ID
    /\ now = StartClock
    /\ last = Call("init", 0, FALSE, NoError)
    /\ assigned = << >>
    /\ held = 0
    /\ listed = << >>

AddTask ==
    \E a \in AddInputs :
        LET r == add_task(tasks, next_id, now, a)
        IN  /\ r.next_id <= MaxTasks + 1
            /\ tasks' = r.tasks
            /\ next_id' = r.next_id
            /\ last' = Call("add_task", 0, FALSE, r.raised)
            /\ assigned' = assigned \o r.created
            /\ UNCHANGED <<now, held, listed>>

MarkComplete ==
    \E task_id \in TaskIds, is_complete \in BOOLEAN :
        LET r == mark_complete(tasks, next_id, now, task_id, is_complete)
        IN  /\ r.next_id <= MaxTasks + 1
            /\ tasks' = r.tasks
            /\ next_id' = r.next_id
            /\ last' = Call("mark_complete", task_id, is_complete, r.raised)
            /\ assigned' = assigned \o r.created
            /\ UNCHANGED <<now, held, listed>>

UpdateTask ==
    \E task_id \in TaskIds, p \in UpdateInputs :
        LET r == update_task(tasks, next_id, now, task_id, p)
        IN  /\ tasks' = r.tasks
            /\ next_id' = r.next_id
            /\ last' = Call("update_task", task_id, FALSE, r.raised)
            /\ assigned' = assigned \o r.created
            /\ UNCHANGED <<now, held, listed>>

DeleteTask ==
    \E task_id \in TaskIds :
        LET r == delete_task(tasks, next_id, task_id)
        IN  /\ tasks' = r.tasks
            /\ next_id' = r.next_id
            /\ last' = Call("delete_task", task_id, FALSE, r.raised)
            /\ assigned' = assigned \o r.created
            /\ UNCHANGED <<now, held, listed>>

\* the system clock moves on by a day
Tick ==
    /\ toordinal(now) < toordinal(StartClock) + MaxDays
    /\ now' = plus_days(now, 1)
    /\ last' = Call("tick", 0, FALSE, NoError)
    /\ UNCHANGED <<tasks, next_id, assigned, held, listed>>

Next == AddTask \/ MarkComplete \/ UpdateTask \/ DeleteTask \/ Tick

Spec == Init /\ [][Next]_vars

\* the calls of one day: the clock stands still
EditNext == AddTask \/ MarkComplete \/ UpdateTask \/ DeleteTask

EditSpec == Init /\ [][EditNext]_vars

----------------------------------------------------------------------------
(* The recurrence arithmetic over the calendar: the run starts on any day  *)
(* of CalYears with an empty store, a task due that day is added with one  *)
(* of the recurrence rules, and tasks are completed.                       *)

\* a common year, a leap year, a leap century year and a common century year
CalYears == {2000, 2023, 2024, 2100}

CalDays ==
    {d \in CalYears \X (1..12) \X (1..31) : d[3] <= monthrange_last(d[1], d[2])}

\* at most MaxChain ids are handed out in a calendar run
MaxChain == 3

CalInit ==
    /\ tasks = << >>
    /\ next_id = INITIAL_TASK_ID
    /\ now \in {<<d[1], d[2], d[3], StartClock[4]>> : d \in CalDays}
    /\ last = Call("init", 0, FALSE, NoError)
    /\ assigned = << >>
    /\ held = 0
    /\ listed = << >>

CalAddTask ==
    \E rule \in VALID_RECURRENCE_RULES :
        LET due == <<now[1], now[2], now[3], StartDue[4]>>
            r == add_task(tasks, next_id, now,
                          AddArgs(Str_a, << >>, None, None, Some(due), Some(rule)))
        IN  /\ tasks = << >>
            /\ next_id = INITIAL_TASK_ID
            /\ tasks' = r.tasks
            /\ next_id' = r.next_id
            /\ last' = Call("add_task", 0, FALSE, r.raised)
            /\ assigned' = assigned \o r.created
            /\ UNCHANGED <<now, held, listed>>

CalMarkComplete ==
    \E task_id \in DOMAIN tasks :
        LET r == mark_complete(tasks, next_id, now, task_id, TRUE)
        IN  /\ r.next_id <= MaxChain + 1
            /\ tasks' = r.tasks
            /\ next_id' = r.next_id
            /\ last' = Call("mark_complete", task_id, TRUE, r.raised)
            /\ assigned' = assigned \o r.created
            /\ UNCHANGED <<now, held, listed>>

CalNext == CalAddTask \/ CalMarkComplete

CalSpec == CalInit /\ [][CalNext]_vars

----------------------------------------------------------------------------
(* The caller's side: the caller keeps the Task returned by add_task and   *)
(* the list returned by get_all_tasks, and writes to both.                 *)

CallerAddInputs == {DueOnlyArgs, [DueOnlyArgs EXCEPT !.title = << >>]}

\* the fields the caller assigns: a due date in the past, the done flag
CallerWrites == {"due_date", "is_complete"}

written(field) == IF field = "due_date" THEN Some(Day(-1)) ELSE TRUE

\* list.reverse(), del list[0], list.append(task)
ListWrites(list, ref) ==
    {[p \in DOMAIN list |-> list[Len(list) + 1 - p]]}
    \cup (IF list # << >> THEN {Tail(list)} ELSE {})
    \cup (IF ref # 0 /\ Len(list) < MaxTasks THEN {Append(list, ref)} ELSE {})

CallerAddTask ==
    \E a \in CallerAddInputs :
        LET r == add_task(tasks, next_id, now, a)
        IN  /\ r.next_id <= MaxTasks + 1
            /\ tasks' = r.tasks
            /\ next_id' = r.next_id
            /\ last' = Call("add_task", 0, FALSE, r.raised)
            /\ assigned' = assigned \o r.created
            /\ held' = add_task_returns(r, held)
            /\ UNCHANGED <<now, listed>>

CallerDeleteTask ==
    \E task_id \in TaskIds :
        LET r == delete_task(tasks, next_id, task_id)
        IN  /\ tasks' = r.tasks
            /\ last' = Call("delete_task", task_id, FALSE, r.raised)
            /\ UNCHANGED <<next_id, now, assigned, held, listed>>

CallerGetAllTasks ==
    /\ listed' = Refs(get_all_tasks(tasks))
    /\ last' = Call("get_all_tasks", 0, FALSE, NoError)
    /\ UNCHANGED <<tasks, next_id, now, assigned, held>>

CallerListWrite ==
    \E list \in ListWrites(listed, held) :
        /\ listed' = list
        /\ last' = Call("list_write", 0, FALSE, NoError)
        /\ UNCHANGED <<tasks, next_id, now, assigned, held>>

CallerTaskWrite ==
    \E field \in CallerWrites :
        /\ held # 0
        /\ tasks' = caller_write(tasks, held, field, written(field))
        /\ last' = Call("task_write", held, FALSE, NoError)
        /\ UNCHANGED <<next_id, now, assigned, held, listed>>

CallerNext ==
    \/ CallerAddTask \/ CallerDeleteTask \/ CallerGetAllTasks
    \/ CallerListWrite \/ CallerTaskWrite

CallerSpec == Init /\ [][CallerNext]_vars

----------------------------------------------------------------------------
(* The date queries: tasks with due dates at different times of day are    *)
(* added and completed while the days pass.                                *)

\* a due date k days after the first day: late in the evening on even days,
\* in the morning on odd days (the clock reads 18:00)
DueAt(k) ==
    LET d == plus_days(StartDue, k)
    IN  <<d[1], d[2], d[3], IF k % 2 = 0 THEN 23 ELSE 9>>

QueryDues == {None} \cup {Some(DueAt(k)) : k \in 0..MaxDays}

QueryAddInputs == {AddArgs(Str_a, << >>, None, None, due, None) : due \in QueryDues}

\* the windows asked of get_upcoming_tasks
Windows == 0..(MaxDays + 1)

QueryAddTask ==
    \E a \in QueryAddInputs :
        LET r == add_task(tasks, next_id, now, a)
        IN  /\ r.next_id <= MaxTasks + 1
            /\ tasks' = r.tasks
            /\ next_id' = r.next_id
            /\ last' = Call("add_task", 0, FALSE, r.raised)
            /\ assigned' = assigned \o r.created
            /\ UNCHANGED <<now, held, listed>>

QueryMarkComplete ==
    \E task_id \in TaskIds, is_complete \in BOOLEAN :
        LET r == mark_complete(tasks, next_id, now, task_id, is_complete)
        IN  /\ tasks' = r.tasks
            /\ next_id' = r.next_id
            /\ last' = Call("mark_complete", 0, FALSE, r.raised)
            /\ assigned' = assigned \o r.created
            /\ UNCHANGED <<now, held, listed>>

QueryNext == QueryAddTask \/ QueryMarkComplete \/ Tick

QuerySpec == Init /\ [][QueryNext]_vars

----------------------------------------------------------------------------
(* Filtering and sorting: tasks that differ in title, priority, category   *)
(* and due date are added, completed and deleted.                          *)

Str_work == <<"w", "o", "r", "k">>

ViewAddInputs ==
    {AddArgs(Str_a, << >>, Some("high"), Some(Str_Work), Some(Day(2)), None),
     AddArgs(<<"B">>, << >>, Some("medium"), Some(Str_work), Some(Day(1)), None),
     AddArgs(Str_a, << >>, Some("low"), None, None, None),
     AddArgs(Str_b, << >>, None, Some(Str_Work), None, None),
     AddArgs(Str_a, << >>, Some("high"), Some(Str_work), None, None)}

ViewAddTask ==
    \E a \in ViewAddInputs :
        LET r == add_task(tasks, next_id, now, a)
        IN  /\ r.next_id <= MaxTasks + 1
            /\ tasks' = r.tasks
            /\ next_id' = r.next_id
            /\ last' = Call("add_task", 0, FALSE, r.raised)
            /\ assigned' = assigned \o r.created
            /\ UNCHANGED <<now, held, listed>>

ViewMarkComplete ==
    \E task_id \in TaskIds, is_complete \in BOOLEAN :
        LET r == mark_complete(tasks, next_id, now, task_id, is_complete)
        IN  /\ tasks' = r.tasks
            /\ next_id' = r.next_id
            /\ last' = Call("mark_complete", 0, FALSE, r.raised)
            /\ assigned' = assigned \o r.created
            /\ UNCHANGED <<now, held, listed>>

ViewDeleteTask ==
    \E task_id \in TaskIds :
        LET r == delete_task(tasks, next_id, task_id)
        IN  /\ tasks' = r.tasks
            /\ last' = Call("delete_task", 0, FALSE, r.raised)
            /\ UNCHANGED <<next_id, now, assigned, held, listed>>

ViewNext == ViewAddTask \/ ViewMarkComplete \/ ViewDeleteTask

ViewSpec == Init /\ [][ViewNext]_vars

----------------------------------------------------------------------------
(* Properties.  A property of a call is stated over every reachable state  *)
(* and every input of the call: the call's Outcome from that state.        *)

Unchanged(r) == r.tasks = tasks /\ r.next_id = next_id

Recurring(task) == task.recurrence_rule # None /\ task.due_date # None

\* C1: the ids handed out by successful creations, direct or spawned, are
\* 1, 2, 3, ... in this order, so no id is ever handed out twice, also not
\* after the task that held it was deleted; and the next creation hands out
\* an id that was never handed out.
C1_IdsSequentialNeverReused ==
    /\ \A i \in 1..Len(assigned) : assigned[i] = i
    /\ \A a \in AddInputs :
           \A r \in {add_task(tasks, next_id, now, a)} :
               r.raised = NoError =>
                   /\ r.created = <<Len(assigned) + 1>>
                   /\ r.tasks[Len(assigned) + 1].id = Len(assigned) + 1

\* C1's case: an id is handed out after a task with a smaller id was deleted
C1_Witness ==
    /\ last = Call("add_task", 0, FALSE, NoError)
    /\ assigned = <<1, 2>>
    /\ DOMAIN tasks = {2}

\* C2: whenever update_task raises, the tasks and next_id are what they were
\* before the call.
C2_UpdateAllOrNothing ==
    [][(last'.op = "update_task" /\ last'.raised # NoError)
           => (tasks' = tasks /\ next_id' = next_id)]_vars

\* C3: mark_complete(id, true) on a stored id never raises.
C3_CompleteStoredIdSucceeds ==
    [][(/\ last'.op = "mark_complete"
        /\ last'.is_complete
        /\ last'.task_id \in DOMAIN tasks)
           => last'.raised = NoError]_vars

\* C4: whenever mark_complete raises, the tasks and next_id are what they
\* were before the call.
C4_CompleteNoPartialFailure ==
    [][(last'.op = "mark_complete" /\ last'.raised # NoError)
           => (tasks' = tasks /\ next_id' = next_id)]_vars

\* the next instance of a recurring task, stored under the id new_id
NextInstance(task, new_id) ==
    [id |-> new_id,
     title |-> task.title,
     description |-> task.description,
     is_complete |-> FALSE,
     priority |-> task.priority,
     category |-> task.category,
     due_date |-> Some(_calculate_next_due_date(Val(task.due_date),
                                                Val(task.recurrence_rule))),
     recurrence_rule |-> task.recurrence_rule]

\* C5: a successful mark_complete(id, true) adds a task iff the task has a
\* recurrence rule and a due date; then it adds exactly one, under the
\* previous next_id, incomplete, with the completed task's title,
\* description, priority, category and rule and the next due date; the
\* completed task stays stored, complete, and the other tasks are untouched.
C5_SpawnIffRecurringWithDueDate ==
    \A task_id \in DOMAIN tasks :
        \A r \in {mark_complete(tasks, next_id, now, task_id, TRUE)},
           done \in {[tasks EXCEPT ![task_id].is_complete = TRUE]} :
            r.raised = NoError =>
                IF Recurring(tasks[task_id])
                THEN /\ next_id \notin DOMAIN tasks
                     /\ DOMAIN r.tasks = DOMAIN tasks \cup {next_id}
                     /\ r.tasks[next_id] = NextInstance(tasks[task_id], next_id)
                     /\ \A i \in DOMAIN tasks : r.tasks[i] = done[i]
                     /\ r.next_id = next_id + 1
                ELSE r.tasks = done /\ r.next_id = next_id

\* C5's case: task 1, recurring with a due date, was completed and task 2
\* is its next instance
C5_Witness ==
    /\ last = Call("mark_complete", 1, TRUE, NoError)
    /\ DOMAIN tasks = {1, 2}
    /\ Recurring(tasks[1])
    /\ tasks[1].is_complete
    /\ tasks[1].priority # None
    /\ tasks[2] = NextInstance(tasks[1], 2)

\* C6: each successful mark_complete(id, true) on a task with a recurrence
\* rule and a due date creates one more next instance, whether or not the
\* task was complete before: two calls in a row leave two new tasks with
\* the same due date.
C6_SpawnOnEveryCall ==
    \A task_id \in DOMAIN tasks :
        LET r1 == mark_complete(tasks, next_id, now, task_id, TRUE)
            r2 == mark_complete(r1.tasks, r1.next_id, now, task_id, TRUE)
        IN  (Recurring(tasks[task_id]) /\ r1.raised = NoError) =>
                /\ r2.raised = NoError
                /\ DOMAIN r1.tasks = DOMAIN tasks \cup {next_id}
                /\ DOMAIN r2.tasks = DOMAIN tasks \cup {next_id, next_id + 1}
                /\ r2.next_id = next_id + 2
                /\ r2.tasks[next_id] = NextInstance(tasks[task_id], next_id)
                /\ r2.tasks[next_id + 1] = NextInstance(tasks[task_id], next_id + 1)
                /\ r2.tasks[next_id].due_date = r2.tasks[next_id + 1].due_date

\* C6's case: task 1 was completed twice; tasks 2 and 3 are its next instances
C6_Witness ==
    /\ last = Call("mark_complete", 1, TRUE, NoError)
    /\ DOMAIN tasks = {1, 2, 3}
    /\ tasks[1].is_complete
    /\ tasks[2] = NextInstance(tasks[1], 2)
    /\ tasks[3] = NextInstance(tasks[1], 3)

\* C7: on a stored task without a recurrence rule or without a due date,
\* mark_complete(id, v) twice in a row succeeds twice and leaves the store
\* as one call leaves it: is_complete = v, nothing else changed, no task
\* created.
C7_CompleteIdempotentNonRecurring ==
    \A task_id \in DOMAIN tasks, v \in BOOLEAN :
        \A r1 \in {mark_complete(tasks, next_id, now, task_id, v)} :
        \A r2 \in {mark_complete(r1.tasks, r1.next_id, now, task_id, v)} :
            ~Recurring(tasks[task_id]) =>
                /\ r1.raised = NoError
                /\ r2.raised = NoError
                /\ r1.tasks = [tasks EXCEPT ![task_id].is_complete = v]
                /\ r1.next_id = next_id
                /\ r2.tasks = r1.tasks
                /\ r2.next_id = r1.next_id

\* C7's case: a task without a due date was marked complete while it was
\* the only task ever created
C7_Witness ==
    /\ last = Call("mark_complete", 1, TRUE, NoError)
    /\ DOMAIN tasks = {1}
    /\ next_id = 2
    /\ ~Recurring(tasks[1])
    /\ tasks[1].recurrence_rule # None
    /\ tasks[1].is_complete

\* C8: mark_complete(id, false) on a stored task, recurring or not, sets
\* that task's is_complete to false and changes nothing else: no task is
\* created, no other field changes, next_id stays.
C8_IncompleteNeverSpawns ==
    \A task_id \in DOMAIN tasks :
        \A r \in {mark_complete(tasks, next_id, now, task_id, FALSE)} :
            /\ r.raised = NoError
            /\ r.tasks = [tasks EXCEPT ![task_id].is_complete = FALSE]
            /\ r.next_id = next_id
            /\ r.created = << >>

\* C8's case: a recurring task that was completed (task 2 is its next
\* instance) was marked incomplete again
C8_Witness ==
    /\ last = Call("mark_complete", 1, FALSE, NoError)
    /\ DOMAIN tasks = {1, 2}
    /\ next_id = 3
    /\ Recurring(tasks[1])
    /\ ~tasks[1].is_complete
    /\ tasks[2] = NextInstance(tasks[1], 2)

\* the calendar, stated without ordinals: month lengths and the day after
CalendarDaysIn(y, m) ==
    CASE m \in {1, 3, 5, 7, 8, 10, 12} -> 31
      [] m \in {4, 6, 9, 11} -> 30
      [] OTHER -> IF (y % 4 = 0 /\ y % 100 # 0) \/ y % 400 = 0 THEN 29 ELSE 28

Tomorrow(d) ==
    IF d[3] < CalendarDaysIn(d[1], d[2]) THEN <<d[1], d[2], d[3] + 1, d[4]>>
    ELSE IF d[2] < 12 THEN <<d[1], d[2] + 1, 1, d[4]>>
    ELSE <<d[1] + 1, 1, 1, d[4]>>

RECURSIVE DaysLater(_, _)
DaysLater(d, k) == IF k = 0 THEN d ELSE DaysLater(Tomorrow(d), k - 1)

SameDayNextMonth(d) ==
    LET y == IF d[2] = 12 THEN d[1] + 1 ELSE d[1]
        m == IF d[2] = 12 THEN 1 ELSE d[2] + 1
    IN  <<y, m, IF d[3] <= CalendarDaysIn(y, m) THEN d[3] ELSE CalendarDaysIn(y, m),
          d[4]>>

\* C9: for every due date d, next_due(d, daily) is the day after d,
\* next_due(d, weekly) is seven days after d, and next_due(d, monthly) is
\* the same day of the following month, or that month's last day when the
\* month is shorter, December being followed by January of the next year.
C9_NextDueIsCalendarExact ==
    \A i \in DOMAIN tasks :
        tasks[i].due_date # None =>
            LET d == Val(tasks[i].due_date)
            IN  /\ _calculate_next_due_date(d, "daily") = DaysLater(d, 1)
                /\ _calculate_next_due_date(d, "weekly") = DaysLater(d, 7)
                /\ _calculate_next_due_date(d, "monthly") = SameDayNextMonth(d)

\* C9's case: a monthly task due on 31 January of a leap year was completed
\* and its next instance is due on 29 February
C9_Witness ==
    /\ last = Call("mark_complete", 1, TRUE, NoError)
    /\ DOMAIN tasks = {1, 2}
    /\ tasks[1].recurrence_rule = Some("monthly")
    /\ tasks[1].due_date = Some(<<2024, 1, 31, 12>>)
    /\ tasks[2].due_date = Some(<<2024, 2, 29, 12>>)

\* C10: whenever add_task raises, the tasks and next_id are unchanged, and
\* it raises for each argument list with an invalid title, description,
\* priority, category, due date or recurrence rule.
C10_AddNeverPartial ==
    \A a \in AddInputs :
        \A r \in {add_task(tasks, next_id, now, a)} :
            /\ r.raised # NoError => Unchanged(r) /\ r.created = << >>
            /\ a \in InvalidAddInputs => r.raised # NoError

\* C10's case: a creation was rejected in a store that holds tasks
C10_Witness ==
    /\ last = Call("add_task", 0, FALSE, "ValueError")
    /\ tasks # << >>
    /\ next_id = Cardinality(DOMAIN tasks) + 1

\* the patches tried on an id: none, valid ones and invalid ones
ProbePatches ==
    UpdateInputs
    \cup {[NoPatch EXCEPT !.due_date = Some(Day(k))] : k \in {-1, MaxDays + 1}}
    \cup {[NoPatch EXCEPT !.category = Some(c)] : c \in {Str_Work, <<" ">>}}
    \cup {Patch(Some(Str_b), Some(<<"d">>), Some("low"), Some(Str_Work),
                Some(Day(MaxDays + 1)))}

\* the ids that are not in the store: never assigned, deleted, or out of range
MissingIds == (0..(MaxTasks + 2)) \ DOMAIN tasks

\* C11: update_task with an id that is not in the store fails with the
\* not-found error whatever fields are supplied (none, valid or invalid
\* ones); update_task on a stored id with every field unset fails with the
\* "must provide at least one field" error; both leave the store unchanged.
C11_UpdateNotFoundOrNoFields ==
    /\ \A task_id \in MissingIds, p \in ProbePatches :
           update_task(tasks, next_id, now, task_id, p)
               = Outcome(tasks, next_id, "Task not found", << >>)
    /\ \A task_id \in DOMAIN tasks :
           update_task(tasks, next_id, now, task_id, NoPatch)
               = Outcome(tasks, next_id,
                         "Must provide at least one field to update", << >>)

\* an update of a deleted id has failed while another task is stored
C11_Witness ==
    /\ last.op = "update_task" /\ last.raised = "ValueError"
    /\ \E i \in 1..Len(assigned) : assigned[i] = last.task_id
    /\ last.task_id \notin DOMAIN tasks
    /\ tasks # << >>

\* C12: delete_task on a stored id removes exactly that task and leaves the
\* other tasks and next_id as they were; on an id that is not in the store
\* it fails with the not-found error and changes nothing; so a second delete
\* of the same id fails.
C12_DeleteExactlyOnce ==
    /\ \A task_id \in DOMAIN tasks :
           \A r \in {delete_task(tasks, next_id, task_id)} :
               /\ r.raised = NoError
               /\ DOMAIN r.tasks = DOMAIN tasks \ {task_id}
               /\ \A i \in DOMAIN r.tasks : r.tasks[i] = tasks[i]
               /\ r.next_id = next_id
               /\ delete_task(r.tasks, r.next_id, task_id)
                      = Outcome(r.tasks, r.next_id, "Task not found", << >>)
    /\ \A task_id \in MissingIds :
           delete_task(tasks, next_id, task_id)
               = Outcome(tasks, next_id, "Task not found", << >>)

\* a delete of an id that was assigned and deleted earlier has failed, and
\* another task is still stored
C12_Witness ==
    /\ last.op = "delete_task" /\ last.raised = "ValueError"
    /\ \E i \in 1..Len(assigned) : assigned[i] = last.task_id
    /\ last.task_id \notin DOMAIN tasks
    /\ tasks # << >>

\* C13: get_all_tasks returns every stored task exactly once in ascending
\* id order, and it is a list of its own: after the caller reverses a
\* returned list, removes an element or appends one, get_all_tasks returns
\* what it returned before.
C13_GetAllTasksSortedFresh ==
    /\ [](LET list == get_all_tasks(tasks)
          IN  /\ Len(list) = Cardinality(DOMAIN tasks)
              /\ \A i \in DOMAIN tasks :
                     \E p \in DOMAIN list : list[p] = tasks[i]
              /\ \A p, q \in DOMAIN list : p < q => list[p].id < list[q].id)
    /\ [][last'.op = "list_write"
              => get_all_tasks(tasks') = get_all_tasks(tasks)]_vars

\* the caller has changed the list it got, and the store holds the second
\* task only
C13_Witness ==
    /\ last.op = "list_write"
    /\ listed # Refs(get_all_tasks(tasks))
    /\ DOMAIN tasks = {2}

DueDay(task) == toordinal(Val(task.due_date))

Today == toordinal(now)

\* the ids in st, ascending
Ascending(st) ==
    [p \in 1..Cardinality(st) |->
        CHOOSE i \in st : Cardinality({j \in st : j < i}) = p - 1]

\* C15: get_overdue_tasks returns exactly the stored tasks that are not
\* complete and whose due date lies on a day before today; no completed
\* task and no task due today is in it, at whatever hour it is due.
C15_OverdueExactly ==
    LET list == get_overdue_tasks(tasks, now)
    IN  /\ Refs(list) = Ascending({i \in DOMAIN tasks :
                /\ ~tasks[i].is_complete /\ tasks[i].due_date # None
                /\ DueDay(tasks[i]) < Today})
        /\ \A p \in DOMAIN list :
               /\ list[p] = tasks[list[p].id]
               /\ ~list[p].is_complete
               /\ DueDay(list[p]) # Today

\* one task is overdue; the other is past due and completed or due today
\* at an hour that has passed
C15_Witness ==
    /\ Len(get_overdue_tasks(tasks, now)) = 1
    /\ \E i \in DOMAIN tasks :
           /\ tasks[i].due_date # None
           /\ \/ tasks[i].is_complete /\ DueDay(tasks[i]) < Today
              \/ DueDay(tasks[i]) = Today /\ Val(tasks[i].due_date)[4] < now[4]

\* a due date as a number of hours
DueHour(task) == DueDay(task) * 24 + Val(task.due_date)[4]

ByDueDate(list) ==
    \A p, q \in DOMAIN list : p < q => DueHour(list[p]) <= DueHour(list[q])

\* C16: the lists get_overdue_tasks and get_upcoming_tasks return are in
\* ascending order of due date, the earliest due first.
C16_DateQueriesByDueDate ==
    /\ ByDueDate(get_overdue_tasks(tasks, now))
    /\ \A days \in Windows : ByDueDate(get_upcoming_tasks(tasks, now, days))

\* C17: for every N >= 0, get_upcoming_tasks(N) returns exactly the stored
\* tasks, complete or not, that are due on a day after today and at most N
\* days after today; get_upcoming_tasks(0) is empty.
C17_UpcomingExactly ==
    /\ \A days \in Windows :
           LET list == get_upcoming_tasks(tasks, now, days)
           IN  /\ Refs(list) = Ascending({i \in DOMAIN tasks :
                       /\ tasks[i].due_date # None
                       /\ Today < DueDay(tasks[i])
                       /\ DueDay(tasks[i]) <= Today + days})
               /\ \A p \in DOMAIN list : list[p] = tasks[list[p].id]
    /\ get_upcoming_tasks(tasks, now, 0) = << >>

\* a day has passed; a completed task due tomorrow is in the window of one
\* day, and the other task, due today, is not
C17_Witness ==
    /\ Today > toordinal(StartClock)
    /\ \E i, j \in DOMAIN tasks :
           /\ tasks[i].is_complete
           /\ tasks[i].due_date # None /\ DueDay(tasks[i]) = Today + 1
           /\ Refs(get_upcoming_tasks(tasks, now, 1)) = <<i>>
           /\ tasks[j].due_date # None /\ DueDay(tasks[j]) = Today

C19_DueDateRejectedIffBeforeToday ==
    \A k \in -2..1, hour \in {0, 23} :
        \A due_date \in {plus_days(<<now[1], now[2], now[3], hour>>, k)} :
            /\ \A added \in {add_task(tasks, next_id, now,
                        AddArgs(Str_a, << >>, None, None, Some(due_date), None))} :
                   IF k < 0 THEN added.raised = "Due date must be in the future"
                   ELSE /\ added.raised = NoError
                        /\ added.tasks[next_id].due_date = Some(due_date)
            /\ \A task_id \in DOMAIN tasks :
                   \A updated \in {update_task(tasks, next_id, now, task_id,
                                      [NoPatch EXCEPT !.due_date = Some(due_date)])} :
                       IF k < 0
                       THEN updated.raised = "Due date must be in the future"
                       ELSE /\ updated.raised = NoError
                            /\ updated.tasks[task_id].due_date = Some(due_date)

\* add_task has just stored a task due today at an hour that has passed
C19_Witness ==
    /\ last.op = "add_task" /\ last.raised = NoError
    /\ LET task == tasks[assigned[Len(assigned)]]
       IN  /\ task.due_date # None
           /\ date(Val(task.due_date)) = date(now)
           /\ Val(task.due_date)[4] < now[4]

\* the patches that supply no due date and pass validation
PatchesWithoutDueDate ==
    {[NoPatch EXCEPT !.title = Some(Str_b)],
     [NoPatch EXCEPT !.description = Some(<<"d">>)],
     [NoPatch EXCEPT !.priority = Some("medium")],
     [NoPatch EXCEPT !.category = Some(Str_Work)],
     Patch(Some(Str_b), Some(<<"d">>), Some("medium"), Some(Str_Work), None)}

PastDue(task) ==
    task.due_date # None /\ toordinal(Val(task.due_date)) < toordinal(now)

\* C20: a stored due date is checked only when it is set: the passing of
\* time changes no stored task, and on a task whose due date has passed an
\* update_task call that supplies no due date succeeds, makes its changes
\* and leaves the due date as it is.
C20_StoredDueDateNotRechecked ==
    /\ [](\A task_id \in DOMAIN tasks, p \in PatchesWithoutDueDate :
              PastDue(tasks[task_id]) =>
                  LET r == update_task(tasks, next_id, now, task_id, p)
                  IN  /\ r.raised = NoError
                      /\ r.tasks[task_id].due_date = tasks[task_id].due_date
                      /\ p.title # None => r.tasks[task_id].title = Val(p.title)
                      /\ p.description # None =>
                             r.tasks[task_id].description = Val(p.description)
                      /\ p.priority # None => r.tasks[task_id].priority = p.priority
                      /\ p.category # None => r.tasks[task_id].category = p.category)
    /\ [][now' # now => tasks' = tasks]_vars

\* a task whose due date has passed has just been given a new title
C20_Witness ==
    /\ last.op = "update_task" /\ last.raised = NoError
    /\ last.task_id \in DOMAIN tasks
    /\ PastDue(tasks[last.task_id])
    /\ tasks[last.task_id].title = Str_b

\* the criteria asked of filter_tasks: None is "not supplied"
PriorityCriteria == {None} \cup {Some(x) : x \in VALID_PRIORITIES}

CategoryCriteria == {None, Some(Str_Work), Some(Str_work), Some(DEFAULT_CATEGORY)}

CompleteCriteria == {None, Some(TRUE), Some(FALSE)}

\* C21: filter_tasks returns exactly the stored tasks that match every
\* supplied criterion, in ascending id order; a criterion not supplied
\* matches every task; the category is compared by exact equality; with no
\* criterion the result is that of get_all_tasks.
C21_FilterExactly ==
    /\ \A priority \in PriorityCriteria, category \in CategoryCriteria,
          is_complete \in CompleteCriteria :
           LET list == filter_tasks(tasks, priority, category, is_complete)
           IN  /\ Refs(list) = Ascending({i \in DOMAIN tasks :
                       /\ priority = None \/ tasks[i].priority = priority
                       /\ category = None \/ tasks[i].category = category
                       /\ is_complete = None
                              \/ tasks[i].is_complete = Val(is_complete)})
               /\ \A p \in DOMAIN list : list[p] = tasks[list[p].id]
    /\ filter_tasks(tasks, None, None, None) = get_all_tasks(tasks)

\* two high tasks, one in "Work" and one in "work": the filter for high
\* and "Work" returns the second task only
C21_Witness ==
    /\ DOMAIN tasks = {1, 2}
    /\ tasks[1].priority = Some("high") /\ tasks[1].category = Some(Str_work)
    /\ tasks[2].priority = Some("high") /\ tasks[2].category = Some(Str_Work)
    /\ Refs(filter_tasks(tasks, Some("high"), Some(Str_Work), None)) = <<2>>

\* the place of a priority in the order high, medium, low, none
PriorityRank(task) ==
    CHOOSE n \in 1..4 :
        <<Some("high"), Some("medium"), Some("low"), None>>[n] = task.priority

\* C22: sort_tasks by priority returns the stored tasks, each once, every
\* high task before every medium one, medium before low, low before the
\* tasks without a priority, and tasks of equal priority by ascending id.
C22_SortByPriority ==
    LET list == sort_tasks(tasks, "priority")
    IN  /\ Len(list) = Cardinality(DOMAIN tasks)
        /\ \A i \in DOMAIN tasks : \E p \in DOMAIN list : list[p] = tasks[i]
        /\ \A p, q \in DOMAIN list :
               p < q =>
                   \/ PriorityRank(list[p]) < PriorityRank(list[q])
                   \/ /\ PriorityRank(list[p]) = PriorityRank(list[q])
                      /\ list[p].id < list[q].id

\* the first task has no priority and the second is low: the second comes
\* first
C22_Witness ==
    /\ DOMAIN tasks = {1, 2}
    /\ tasks[1].priority = None /\ tasks[2].priority = Some("low")
    /\ Refs(sort_tasks(tasks, "priority")) = <<2, 1>>

SortKeys == {"id", "priority", "title", "due_date"}

Reversed(list) == [p \in DOMAIN list |-> list[Len(list) + 1 - p]]

\* C23: sort accepts a reverse flag, and with reverse=true it returns the
\* reversal of what it returns with reverse=false, for every sort key.
C23_ReverseIsReversal ==
    Cardinality(DOMAIN tasks) >= 2 =>
        \A sort_by \in SortKeys :
            LET forward == sort_tasks_call(tasks, sort_by, Some(FALSE))
                backward == sort_tasks_call(tasks, sort_by, Some(TRUE))
            IN  /\ forward.raised = NoError
                /\ backward.raised = NoError
                /\ forward.list = sort_tasks(tasks, sort_by)
                /\ backward.list = Reversed(forward.list)

\* C24: update_task with recurrence_rule = r sets the rule of the task to
\* r when r is daily, weekly or monthly, and otherwise fails with the
\* validation error of the recurrence rule and leaves the store unchanged.
C24_RecurrenceRuleUpdatable ==
    \A task_id \in DOMAIN tasks, r \in VALID_RECURRENCE_RULES \cup {"yearly"} :
        LET out == update_task_call(tasks, next_id, now, task_id, NoPatch, Some(r))
        IN  IF r \in VALID_RECURRENCE_RULES
            THEN /\ out.raised = NoError
                 /\ out.tasks = [tasks EXCEPT ![task_id].recurrence_rule = Some(r)]
            ELSE /\ out.raised = validate_recurrence_rule(Some(r))
                 /\ Unchanged(out)

\* the patches tried on a stored task: values at and around the limits,
\* and patches that fail after a field was assigned
EditPatches ==
    {[NoPatch EXCEPT !.title = Some(t)] :
            t \in {<<" ">> \o Rep("x", MAX_TITLE_LENGTH) \o <<"\t">>,
                   Rep("x", MAX_TITLE_LENGTH + 1)}}
    \cup {[NoPatch EXCEPT !.category = Some(c)] :
            c \in {<<" ">> \o Str_Work \o <<" ">>, Rep("x", MAX_CATEGORY_LENGTH),
                   << >>}}
    \cup {Patch(Some(Str_b), None, Some("low"), Some(<<"\t">>), None),
          Patch(None, Some(<<"d">>), None, Some(Str_Work), Some(Day(-1)))}

\* the field constraints of a stored task
WellFormed(task) ==
    /\ task.title # << >> /\ Len(task.title) <= 200
    /\ task.title[1] \notin Whitespace
    /\ task.title[Len(task.title)] \notin Whitespace
    /\ Len(task.description) <= 1000
    /\ task.category # None
    /\ \E n \in DOMAIN Val(task.category) : Val(task.category)[n] \notin Whitespace
    /\ Len(Val(task.category)) <= 50
    /\ task.priority \in {None, Some("low"), Some("medium"), Some("high")}
    /\ task.recurrence_rule \in {None, Some("daily"), Some("weekly"), Some("monthly")}

AllWellFormed(T) == \A i \in DOMAIN T : WellFormed(T[i])

\* C25: in every state reached by add_task, update_task, mark_complete and
\* delete_task calls, returning or raising, every stored task meets the
\* field constraints, and so does every task of the store an update_task
\* call with any of the patches leaves behind.
C25_FieldConstraintsHold ==
    /\ AllWellFormed(tasks)
    /\ \A task_id \in DOMAIN tasks, p \in EditPatches :
           \A r \in {update_task(tasks, next_id, now, task_id, p)} :
               AllWellFormed(r.tasks)

\* an update has failed after it changed the title of a task, a recurring
\* task was completed, and one of its ids is gone
C25_Witness ==
    /\ last.op = "update_task" /\ last.raised = "ValueError"
    /\ last.task_id \in DOMAIN tasks
    /\ tasks[last.task_id].title = Str_b
    /\ tasks[last.task_id].is_complete
    /\ Len(assigned) > Cardinality(DOMAIN tasks)

\* the value update_task stores for a supplied field
Supplied(p, field) ==
    IF field = "title" THEN strip(Val(p.title))
    ELSE IF field = "description" THEN Val(p.description)
    ELSE p[field]

PatchFields == {"title", "description", "priority", "category", "due_date"}

\* patches update_task accepts at any time of the run
AcceptedPatches ==
    PatchesWithoutDueDate
    \cup {[NoPatch EXCEPT !.title = Some(t)] :
            t \in {<<"b", " ">>,
                   <<" ">> \o Rep("x", MAX_TITLE_LENGTH) \o <<"\t">>}}
    \cup {[NoPatch EXCEPT !.category = Some(c)] :
            c \in {<<" ">> \o Str_Work \o <<" ">>, Rep("x", MAX_CATEGORY_LENGTH)}}
    \cup {[NoPatch EXCEPT !.due_date = Some(Day(MaxDays + 1))],
          Patch(Some(Str_b), Some(<<"d">>), Some("low"), Some(Str_Work),
                Some(Day(MaxDays + 1)))}

\* C26: an update_task call with a patch it accepts returns, and an
\* update_task call that returns has changed only the supplied fields of
\* its task: the id, is_complete, recurrence_rule and the fields
\* not supplied are as before (a category not supplied is not set to the
\* default), the other tasks are as before, no task is added or removed and
\* next_id is as before.
C26_UpdateChangesOnlySupplied ==
    \A task_id \in DOMAIN tasks, p \in AcceptedPatches :
        \A r \in {update_task(tasks, next_id, now, task_id, p)} :
            /\ r.raised = NoError
            /\ DOMAIN r.tasks = DOMAIN tasks
            /\ r.next_id = next_id /\ r.created = << >>
            /\ \A i \in DOMAIN tasks \ {task_id} : r.tasks[i] = tasks[i]
            /\ r.tasks[task_id].id = tasks[task_id].id
            /\ r.tasks[task_id].is_complete = tasks[task_id].is_complete
            /\ r.tasks[task_id].recurrence_rule = tasks[task_id].recurrence_rule
            /\ \A field \in PatchFields :
                   r.tasks[task_id][field] =
                       IF p[field] = None THEN tasks[task_id][field]
                       ELSE Supplied(p, field)

\* a completed recurring task in the category "Work" has been given a new
\* title and has kept the rest
C26_Witness ==
    /\ last.op = "update_task" /\ last.raised = NoError
    /\ last.task_id \in DOMAIN tasks
    /\ LET task == tasks[last.task_id]
       IN  /\ task.title = Str_b /\ task.is_complete
           /\ task.category = Some(Str_Work)
           /\ task.recurrence_rule = Some("daily")
    /\ Cardinality(DOMAIN tasks) = 2

\* C27: each task is stored under its own id, the stored ids are at least 1
\* and below next_id; next_id never decreases and moves only in a call that
\* creates tasks, by one for each task created, spawned ones included; and
\* the number of stored tasks follows next_id less one for each successful
\* delete_task: it starts at next_id - 1 = 0, and each step adds to it what
\* the step adds to next_id, less 1 when the step is a successful delete.
C27_StoreStructure ==
    /\ [](/\ \A i \in DOMAIN tasks : tasks[i].id = i /\ 1 <= i /\ i < next_id
          /\ Cardinality(DOMAIN tasks) <= next_id - 1)
    /\ [][/\ next_id' >= next_id
          /\ next_id' - next_id = Len(assigned') - Len(assigned)
          /\ next_id' # next_id =>
                 /\ last'.op \in {"add_task", "mark_complete"}
                 /\ last'.raised = NoError
          /\ Cardinality(DOMAIN tasks') =
                 Cardinality(DOMAIN tasks) + (next_id' - next_id)
                 - (IF last'.op = "delete_task" /\ last'.raised = NoError
                    THEN 1 ELSE 0)]_vars

\* the first task has just been deleted; the task left was spawned by a
\* completion
C27_Witness ==
    /\ last.op = "delete_task" /\ last.raised = NoError
    /\ next_id = 3 /\ DOMAIN tasks = {2}
    /\ tasks[2].recurrence_rule = Some("daily")
    /\ tasks[2].due_date = Some(Day(1))

\* the ids of the tasks in a list
Ids(list) == {list[p].id : p \in DOMAIN list}

\* C28: at one clock reading and for every N >= 0, no task is in two of
\* the results of get_overdue_tasks, get_tasks_due_today and
\* get_upcoming_tasks(N), and every incomplete task due on or before the
\* day N days after today is in one of them.
C28_DateQueriesPartition ==
    \A days \in Windows :
        LET overdue == Ids(get_overdue_tasks(tasks, now))
            today == Ids(get_tasks_due_today(tasks, now))
            upcoming == Ids(get_upcoming_tasks(tasks, now, days))
        IN  /\ overdue \cap today = {}
            /\ overdue \cap upcoming = {}
            /\ today \cap upcoming = {}
            /\ \A i \in DOMAIN tasks :
                   (/\ ~tasks[i].is_complete /\ tasks[i].due_date # None
                    /\ DueDay(tasks[i]) <= Today + days)
                       => i \in overdue \cup today \cup upcoming

\* one task is overdue and the other is due today at an hour that has
\* passed, both incomplete
C28_Witness ==
    \E i, j \in DOMAIN tasks :
        /\ ~tasks[i].is_complete /\ ~tasks[j].is_complete
        /\ Ids(get_overdue_tasks(tasks, now)) = {i}
        /\ Ids(get_tasks_due_today(tasks, now)) = {j}
        /\ Val(tasks[j].due_date)[4] < now[4]

\* the months since year 0 of a date
MonthNumber(d) == d[1] * 12 + d[2]

\* one link of a monthly chain: the successor is due later, in the month
\* right after the predecessor's, on a day of the month that is not higher
MonthlyLink(due, next_due) ==
    /\ datetime_lt(due, next_due)
    /\ MonthNumber(next_due) = MonthNumber(due) + 1
    /\ next_due[3] <= due[3]

\* C29: along a chain of monthly recurrence every spawned due date is later
\* than its predecessor's, lies in the month right after it and has a day
\* of the month that is not higher: completing a stored monthly task spawns
\* such a successor, and completing the successor spawns such a successor
\* of it.
C29_MonthlyChainNeverGrows ==
    \A i \in DOMAIN tasks :
        (tasks[i].recurrence_rule = Some("monthly") /\ tasks[i].due_date # None) =>
            \A r \in {mark_complete(tasks, next_id, now, i, TRUE)} :
                /\ r.raised = NoError /\ r.created = <<next_id>>
                /\ r.tasks[next_id].recurrence_rule = Some("monthly")
                /\ MonthlyLink(Val(tasks[i].due_date), Val(r.tasks[next_id].due_date))
                /\ \A q \in {mark_complete(r.tasks, r.next_id, now, next_id, TRUE)} :
                       /\ q.raised = NoError /\ q.created = <<r.next_id>>
                       /\ MonthlyLink(Val(r.tasks[next_id].due_date),
                                      Val(q.tasks[r.next_id].due_date))
                       /\ Val(q.tasks[r.next_id].due_date)[3]
                              <= Val(tasks[i].due_date)[3]

\* a task due on 31 January 2023 was completed, and then the task that
\* spawned: the chain is 31 January, 28 February, 28 March
C29_Witness ==
    /\ last = Call("mark_complete", 2, TRUE, NoError)
    /\ DOMAIN tasks = {1, 2, 3}
    /\ tasks[1].recurrence_rule = Some("monthly")
    /\ tasks[1].due_date = Some(<<2023, 1, 31, 12>>)
    /\ tasks[2].due_date = Some(<<2023, 2, 28, 12>>)
    /\ tasks[3].due_date = Some(<<2023, 3, 28, 12>>)

\* C30: for every due date the Phase-2 calculate_next_due_date with MONTHLY
\* returns a date in the month right after the due date's month, and the
\* date Phase-1's _calculate_next_due_date returns for "monthly".
C30_Phase2MonthlyAgrees ==
    \A i \in DOMAIN tasks :
        tasks[i].due_date # None =>
            LET current_due == Val(tasks[i].due_date)
                next_due == calculate_next_due_date(current_due, "monthly")
            IN  /\ MonthNumber(next_due) = MonthNumber(current_due) + 1
                /\ next_due = _calculate_next_due_date(current_due, "monthly")

====
